---- MODULE Spec2Model ----
(***************************************************************************)
(* Model of pypower/pfsoln.py: pfsoln(baseMVA, bus0, gen0, branch0, Ybus,  *)
(* Yf, Yt, V, ref, pv, pq) rewrites the bus, generator and branch tables   *)
(* in place so that they match a solved complex bus-voltage vector V.      *)
(*                                                                         *)
(* Numbers.  The tables hold IEEE-754 binary floating-point numbers.  The  *)
(* model keeps the format's structure (binary, round to nearest, ties to   *)
(* even, eps = 2^(1-p)) with a mantissa of MantBits bits instead of 53.    *)
(* A float is a dyadic rational <<m, e>> = m * 2^e in normal form (m odd,  *)
(* or <<0, 0>>).  Table inputs are whole numbers far below 2^MantBits, on  *)
(* which +, - and * are exact, so the columns that only ever see those     *)
(* operations (VM, VA, PD, QD, PG, the branch flows) are kept as integers; *)
(* QG, which goes through the divisions of the equal and proportional      *)
(* split, is kept as a rounded float.                                      *)
(***************************************************************************)
EXTENDS Integers, Sequences, FiniteSets

(* ------------------------------ bounds --------------------------------- *)
NumBuses == 2
NumGens == 3
NumBranches == 2
MantBits == 8

Buses == 0 .. (NumBuses - 1)
Gens == 0 .. (NumGens - 1)
Branches == 0 .. (NumBranches - 1)

(* An array expression, evaluated once into an array. *)
Array(f) == IF f = << >> THEN << >> ELSE f

(* ----------------------- dyadic rationals, exact ----------------------- *)
Min2(a, b) == IF a <= b THEN a ELSE b

AbsInt(n) == IF n < 0 THEN -n ELSE n

Half == 2 ^ (MantBits - 1)

Top == 2 ^ MantBits

(* number of bits of n, and number of trailing zero bits of n, 1 <= n <= Top *)
BitLen == Array([n \in 1 .. Top |-> CHOOSE k \in 1 .. (MantBits + 1) : 2 ^ (k - 1) <= n /\ n < 2 ^ k])

TrailingZeros == Array([n \in 1 .. Top |-> CHOOSE k \in 0 .. MantBits : n % (2 ^ k) = 0 /\ n % (2 ^ (k + 1)) # 0])

(* normal form of m * 2^e for |m| <= Top: m odd, or <<0, 0>> *)
Norm(m, e) ==
  IF m = 0 THEN <<0, 0>>
  ELSE LET z == TrailingZeros[AbsInt(m)] IN <<m \div (2 ^ z), e + z>>

FromInt(n) == Norm(n, 0)

(* exact sum, difference and product; the result need not be in normal form *)
DAdd(x, y) ==
  LET e == Min2(x[2], y[2])
  IN  <<x[1] * 2 ^ (x[2] - e) + y[1] * 2 ^ (y[2] - e), e>>

DNeg(x) == <<-x[1], x[2]>>

DSub(x, y) == DAdd(x, DNeg(y))

DMul(x, y) == <<x[1] * y[1], x[2] + y[2]>>

DAbs(x) == <<AbsInt(x[1]), x[2]>>

DLeq(x, y) == DSub(x, y)[1] <= 0

(* ------------- floating point: round to nearest, ties to even ---------- *)
(* number of bits of a, 1 <= a < Top^3 *)
Bits(a) ==
  IF a <= Top THEN BitLen[a]
  ELSE IF a \div Top <= Top THEN MantBits + BitLen[a \div Top]
  ELSE 2 * MantBits + BitLen[a \div (Top * Top)]

(* a / d rounded to a whole number, ties to the even one *)
RoundHalfEven(a, d) ==
  LET q == a \div d
      r == a % d
  IN  IF 2 * r > d \/ (2 * r = d /\ q % 2 = 1) THEN q + 1 ELSE q

(* the float nearest to (n / d) * 2^e, for d >= 1: scale |n| / d into      *)
(* [Half, Top) by a power of two 2^k, round the quotient to a whole number *)
RoundRat(n, d, e) ==
  IF n = 0 THEN <<0, 0>>
  ELSE LET a == AbsInt(n)
           k0 == Bits(a) - Bits(d) - MantBits
           k == IF (k0 >= 0 /\ a >= d * 2 ^ k0 * Top) \/ (k0 < 0 /\ a * 2 ^ (-k0) >= d * Top)
                THEN k0 + 1 ELSE k0
           q == IF k >= 0 THEN RoundHalfEven(a, d * 2 ^ k)
                ELSE RoundHalfEven(a * 2 ^ (-k), d)
       IN  Norm(IF n < 0 THEN -q ELSE q, e + k)

(* a dyadic whose mantissa fits is a float already *)
Fl(x) == IF AbsInt(x[1]) < Top THEN Norm(x[1], x[2]) ELSE RoundRat(x[1], 1, x[2])

FAdd(x, y) == Fl(DAdd(x, y))

FSub(x, y) == Fl(DSub(x, y))

FMul(x, y) == Fl(DMul(x, y))

(* x / y for y # 0 *)
FDiv(x, y) ==
  RoundRat(IF y[1] < 0 THEN -x[1] ELSE x[1], AbsInt(y[1]), x[2] - y[2])

(* EPS = finfo(float).eps, the gap between 1.0 and the next float *)
EPS == <<1, 1 - MantBits>>

(* -------------------------- complex integers --------------------------- *)
CAdd(a, b) == <<a[1] + b[1], a[2] + b[2]>>

CMul(a, b) == <<a[1] * b[1] - a[2] * b[2], a[1] * b[2] + a[2] * b[1]>>

CConj(a) == <<a[1], -a[2]>>

CScale(a, k) == <<a[1] * k, a[2] * k>>

(* row * V for one row of a (sparse) matrix: sum over j of row[j] * V[j] *)
RECURSIVE RowDotUpTo(_, _, _)
RowDotUpTo(row, v, n) ==
  IF n < 0 THEN <<0, 0>>
  ELSE CAdd(RowDotUpTo(row, v, n - 1), CMul(row[n], v[n]))

RowDot(row, v) == RowDotUpTo(row, v, NumBuses - 1)

(* abs(V): defined where the modulus is a whole number *)
CAbs(z) ==
  LET n == z[1] * z[1] + z[2] * z[2]
  IN  CHOOSE r \in 0 .. n : r * r = n

(* angle(V) * 180 / pi = atan2(im, re) in degrees, on the axes *)
CAngleDeg(z) ==
  CASE z[2] = 0 /\ z[1] >= 0 -> 0
    [] z[2] = 0 /\ z[1] < 0 -> 180
    [] z[1] = 0 /\ z[2] > 0 -> 90
    [] z[1] = 0 /\ z[2] < 0 -> -90

(* ------------------------------- state --------------------------------- *)
VARIABLES
  baseMVA,   \* power base
  Ybus,      \* bus admittance matrix, Ybus[b][j]
  Yf,        \* from-end branch admittance matrix, Yf[l][j]
  Yt,        \* to-end branch admittance matrix, Yt[l][j]
  V,         \* solved complex bus voltages, V[b] = <<re, im>>
  ref,       \* index of the reference bus
  bus,       \* bus table    (bus0, updated in place)
  gen,       \* generator table (gen0, updated in place)
  branch,    \* branch table (branch0, updated in place)
  pre,       \* the three tables as they were when the latest call began
  outcome,   \* "none" before any call, then "ok" (returned) or "error" (raised)
  calls,     \* number of calls of pfsoln made so far
  pc1,       \* position of stage 1 (bus voltages) when the stages interleave
  pc2,       \* position of stage 2 (generator dispatch)
  pc3        \* position of stage 3 (branch flows)

vars == <<baseMVA, Ybus, Yf, Yt, V, ref, bus, gen, branch, pre, outcome, calls,
          pc1, pc2, pc3>>

inputs == <<baseMVA, Ybus, Yf, Yt, V, ref>>

(* ------------------------ stage 1: bus voltages ------------------------ *)
(* bus[:, VM] = abs(V) *)
SetVM(b, v) == Array([i \in DOMAIN b |-> [b[i] EXCEPT !.VM = CAbs(v[i])]])

(* bus[:, VA] = angle(V) * 180 / pi *)
SetVA(b, v) == Array([i \in DOMAIN b |-> [b[i] EXCEPT !.VA = CAngleDeg(v[i])]])

UpdateVoltages(b, v) == SetVA(SetVM(b, v), v)

(* ---------------------- stage 2: generator dispatch -------------------- *)
(* on = find(gen[:, GEN_STATUS] > 0), as the set of row indices *)
OnSet(g) == {i \in DOMAIN g : g[i].GEN_STATUS > 0}

(* the rows of on located at bus b; gbus = gen[on, GEN_BUS] *)
OnAt(g, b) == {i \in DOMAIN g : g[i].GEN_STATUS > 0 /\ g[i].GEN_BUS = b}

(* refgen = find(gbus == ref) *)
RefGens(g, r) == OnAt(g, r)

SetMin(S) == CHOOSE x \in S : \A y \in S : x <= y

SetMax(S) == CHOOSE x \in S : \A y \in S : y <= x

(* on[refgen[-1]]: the last on-line generator at ref taken as the anchor *)
AnchorLast(g, r) == SetMax(RefGens(g, r))

(* on[refgen[0]]: find returns ascending indices, so the first is the least *)
Anchor(g, r) == SetMin(RefGens(g, r))

(* Sg = V[gbus] * conj(Ybus[gbus, :] * V), for the bus b of one generator *)
Sg(yb, v, b) == CMul(v[b], CConj(RowDot(yb[b], v)))

(* Sg.imag * baseMVA + bus[gbus, QD] * bus[gbus, VM]: the load scaled by  *)
(* the voltage magnitude held in the bus table                            *)
QTotalLoadTimesVM(mva, yb, v, b, bb) == Sg(yb, v, b)[2] * mva + bb[b].QD * bb[b].VM

(* Sg.imag * baseMVA + bus[gbus, QD]: the total Q dispatch required at b *)
QTotal(mva, yb, v, b, bb) == Sg(yb, v, b)[2] * mva + bb[b].QD

(* Sg[refgen[0]].real * baseMVA + bus[ref, PD] *)
PTotal(mva, yb, v, r, bb) == Sg(yb, v, r)[1] * mva + bb[r].PD

(* gen[:, QG] = zeros; gen[on, QG] = Sg.imag * baseMVA + bus[gbus, QD] *)
AssignQ(g, mva, yb, v, bb) ==
  Array([i \in DOMAIN g |->
     [g[i] EXCEPT !.QG = IF g[i].GEN_STATUS > 0
                         THEN Fl(<<QTotal(mva, yb, v, g[i].GEN_BUS, bb), 0>>)
                         ELSE <<0, 0>>]])

(* ngg counting every generator at the bus, whatever its status *)
NggAnyStatus(g, i) == Cardinality({j \in DOMAIN g : g[j].GEN_BUS = g[i].GEN_BUS})

(* ngg = Cg * Cg.sum(0).T: number of on-line generators at generator i's bus *)
Ngg(g, i) == Cardinality(OnAt(g, g[i].GEN_BUS))

(* the equal split dividing by len(on) instead of ngg *)
EqualSplitByAllOnLine(g) ==
  Array([i \in DOMAIN g |->
     IF g[i].GEN_STATUS > 0
     THEN [g[i] EXCEPT !.QG = FDiv(g[i].QG, FromInt(Cardinality(OnSet(g))))]
     ELSE g[i]])

(* gen[on, QG] = gen[on, QG] / ngg *)
EqualSplit(g) ==
  Array([i \in DOMAIN g |->
     IF g[i].GEN_STATUS > 0
     THEN [g[i] EXCEPT !.QG = FDiv(g[i].QG, FromInt(Ngg(g, i)))]
     ELSE g[i]])

(* one entry of the column sum of a sparse matrix holding val[i] in row i  *)
(* for the rows i in S: floating-point accumulation in ascending row order *)
RECURSIVE FSum(_, _)
FSum(S, val) ==
  IF S = {} THEN <<0, 0>>
  ELSE LET m == CHOOSE x \in S : \A y \in S : y <= x
       IN  FAdd(FSum(S \ {m}, val), val[m])

(* Qg_tot = Cg.T * gen[on, QG]: nb x 1 vector of total Qg at each bus *)
QgTot(g) ==
  Array([b \in Buses |-> FSum(OnAt(g, b), [i \in DOMAIN g |-> g[i].QG])])

(* Qg_min = Cmin.sum(0).T: nb x 1 vector of min total Qg at each bus *)
QgMin(g) ==
  Array([b \in Buses |-> FSum(OnAt(g, b), [i \in DOMAIN g |-> FromInt(g[i].QMIN)])])

(* Qg_max = Cmax.sum(0).T: nb x 1 vector of max total Qg at each bus *)
QgMax(g) ==
  Array([b \in Buses |-> FSum(OnAt(g, b), [i \in DOMAIN g |-> FromInt(g[i].QMAX)])])

(* ig = find(gen[on, QMIN] == gen[on, QMAX]): gens with Qg range = 0 *)
IgOwnRange(g, mn, mx) == {i \in OnSet(g) : g[i].QMIN = g[i].QMAX}

(* ig = find(Cg * Qg_min == Cg * Qg_max): gens at buses with Qg range = 0 *)
Ig(g, mn, mx) == {i \in OnSet(g) : mn[g[i].GEN_BUS] = mx[g[i].GEN_BUS]}

(* Qg_tot / (Qg_max + EPS): the fraction taken of the maximum *)
FractionOfMax(tot, mn, mx) ==
  Array([b \in Buses |-> FDiv(tot[b], FAdd(mx[b], EPS))])

(* (Qg_tot - Qg_min) / (Qg_max - Qg_min + EPS), nb x 1 *)
Fraction(tot, mn, mx) ==
  Array([b \in Buses |-> FDiv(FSub(tot[b], mn[b]), FAdd(FSub(mx[b], mn[b]), EPS))])

(* gen[on, QMIN] + (Cg * fraction) * (gen[on, QMAX] - gen[on, QMIN]) *)
Interpolate(g, fr, i) ==
  FAdd(FromInt(g[i].QMIN),
       FMul(fr[g[i].GEN_BUS], FSub(FromInt(g[i].QMAX), FromInt(g[i].QMIN))))

(* Qg_save = gen[on[ig], QG]; gen[on, QG] = ...; gen[on[ig], QG] = Qg_save *)
ProportionalSplit(g) ==
  LET mn == QgMin(g)
      mx == QgMax(g)
      fr == Fraction(QgTot(g), mn, mx)
      ig == Ig(g, mn, mx)
  IN  Array([i \in DOMAIN g |->
        IF g[i].GEN_STATUS > 0 /\ i \notin ig
        THEN [g[i] EXCEPT !.QG = Interpolate(g, fr, i)]
        ELSE g[i]])

(* if len(on) > 1: equal split, then proportional split *)
SplitQ(g) ==
  IF Cardinality(OnSet(g)) > 1 THEN ProportionalSplit(EqualSplit(g)) ELSE g

(* lines 45-86: Qg of every generator *)
UpdateQg(g, mva, yb, v, bb) == SplitQ(AssignQ(g, mva, yb, v, bb))

(* refgen[0] raises IndexError when no on-line generator is at ref *)
HasRefGen(g, r) == RefGens(g, r) # {}

RECURSIVE SumPG(_, _)
SumPG(S, g) ==
  IF S = {} THEN 0
  ELSE LET m == CHOOSE x \in S : TRUE IN g[m].PG + SumPG(S \ {m}, g)

(* sum(gen[on[refgen[1:len(refgen)]], PG]) *)
OtherRefPG(g, r) == SumPG(RefGens(g, r) \ {Anchor(g, r)}, g)

(* lines 90-94 subtracting the PG of refgen[0:], the anchor's included *)
UpdatePgAllRef(g, mva, yb, v, r, bb) ==
  LET a == Anchor(g, r)
      p == PTotal(mva, yb, v, r, bb)
  IN  [g EXCEPT ![a].PG = IF Cardinality(RefGens(g, r)) > 1
                          THEN p - SumPG(RefGens(g, r), g)
                          ELSE p]

(* lines 90-94, for a non-empty refgen *)
UpdatePg(g, mva, yb, v, r, bb) ==
  LET a == Anchor(g, r)
      p == PTotal(mva, yb, v, r, bb)
  IN  [g EXCEPT ![a].PG = IF Cardinality(RefGens(g, r)) > 1
                          THEN p - OtherRefPG(g, r)
                          ELSE p]

(* ------------------------ stage 3: branch flows ------------------------ *)
(* out = find(branch[:, BR_STATUS] == 0) *)
OutSet(br) == {l \in DOMAIN br : br[l].BR_STATUS = 0}

(* br = find(branch[:, BR_STATUS]): the rows with a non-zero status *)
InSet(br) == {l \in DOMAIN br : br[l].BR_STATUS # 0}

(* Sf = V[branch[br, F_BUS]] * conj(Yf[br, :] * V) * baseMVA *)
Sf(br, yf, v, mva, l) == CScale(CMul(v[br[l].F_BUS], CConj(RowDot(yf[l], v))), mva)

(* St = V[branch[br, T_BUS]] * conj(Yt[br, :] * V) * baseMVA *)
St(br, yt, v, mva, l) == CScale(CMul(v[br[l].T_BUS], CConj(RowDot(yt[l], v))), mva)

(* branch[ix_(br, [PF, QF, PT, QT])] = c_[Sf.real, Sf.imag, St.real, St.imag] *)
WriteInService(br, yf, yt, v, mva) ==
  Array([l \in DOMAIN br |->
     IF l \in InSet(br)
     THEN LET sf == Sf(br, yf, v, mva, l)
              st == St(br, yt, v, mva, l)
          IN  [br[l] EXCEPT !.PF = sf[1], !.QF = sf[2], !.PT = st[1], !.QT = st[2]]
     ELSE br[l]])

(* line 105 left out *)
WriteOutOfServiceSkipped(br) == br

(* branch[ix_(out, [PF, QF, PT, QT])] = zeros((len(out), 4)) *)
WriteOutOfService(br) ==
  Array([l \in DOMAIN br |->
     IF l \in OutSet(br)
     THEN [br[l] EXCEPT !.PF = 0, !.QF = 0, !.PT = 0, !.QT = 0]
     ELSE br[l]])

UpdateBranches(br, yf, yt, v, mva) ==
  WriteOutOfService(WriteInService(br, yf, yt, v, mva))

(* ---------------------- variants of the whole call --------------------- *)
(* pfsoln guarding lines 90-94 by len(refgen) > 0 and carrying on *)
pfsolnSilent(mva, b0, g0, br0, yb, yf, yt, v, r) ==
  LET b1 == UpdateVoltages(b0, v)
      g1 == UpdateQg(g0, mva, yb, v, b1)
  IN  [bus |-> b1,
       gen |-> IF HasRefGen(g1, r) THEN UpdatePg(g1, mva, yb, v, r, b1) ELSE g1,
       branch |-> UpdateBranches(br0, yf, yt, v, mva),
       outcome |-> "ok"]

(* pfsoln working on copies and handing them back only on success *)
pfsolnOnCopies(mva, b0, g0, br0, yb, yf, yt, v, r) ==
  LET b1 == UpdateVoltages(b0, v)
      g1 == UpdateQg(g0, mva, yb, v, b1)
  IN  IF HasRefGen(g1, r)
      THEN [bus |-> b1,
            gen |-> UpdatePg(g1, mva, yb, v, r, b1),
            branch |-> UpdateBranches(br0, yf, yt, v, mva),
            outcome |-> "ok"]
      ELSE [bus |-> b0, gen |-> g0, branch |-> br0, outcome |-> "error"]

(* ------------------------- the whole of pfsoln ------------------------- *)
(* The tables after a call and how it ended.  The statements run in order  *)
(* on the caller's arrays, so when refgen[0] raises, lines 40-86 have      *)
(* taken effect and lines 90-105 have not.                                 *)
(* lines 88-107, on the tables b1 and g1 that lines 39-86 left *)
FromAnchor(mva, b1, g1, br0, yb, yf, yt, v, r) ==
  IF HasRefGen(g1, r)
  THEN [bus |-> b1,
        gen |-> UpdatePg(g1, mva, yb, v, r, b1),
        branch |-> UpdateBranches(br0, yf, yt, v, mva),
        outcome |-> "ok"]
  ELSE [bus |-> b1, gen |-> g1, branch |-> br0, outcome |-> "error"]

(* lines 43-107, on the bus table b1 that lines 39-41 left *)
FromDispatch(mva, b1, g0, br0, yb, yf, yt, v, r) ==
  FromAnchor(mva, b1, UpdateQg(g0, mva, yb, v, b1), br0, yb, yf, yt, v, r)

pfsoln(mva, b0, g0, br0, yb, yf, yt, v, r) ==
  FromDispatch(mva, UpdateVoltages(b0, v), g0, br0, yb, yf, yt, v, r)

(* ------------------------------- inputs -------------------------------- *)
(* Two networks.  Net 1: flat voltages, baseMVA 10.  Net 2: unequal        *)
(* voltages a quarter turn apart, baseMVA 1.  Every quantity is given by a *)
(* formula in the bus or branch index, so it is defined for any size.      *)
Nets == {1, 2}

NetV(k) ==
  [b \in Buses |-> IF k = 1 THEN <<1, 0>>
                   ELSE IF b % 2 = 0 THEN <<2, 0>> ELSE <<0, -1>>]

NetMVA(k) == IF k = 1 THEN 10 ELSE 1

NetYbus(k) ==
  [b \in Buses |-> [j \in Buses |->
     IF b = j THEN (IF k = 1 THEN <<2, -4>> ELSE <<3, -5>>)
     ELSE IF b - j \in {-1, 1} THEN <<-1, 2>>
     ELSE <<0, 0>>]]

FromBus(l) == l % NumBuses

ToBus(l) == (l + 1) % NumBuses

NetYf(k) ==
  [l \in Branches |-> [j \in Buses |->
     IF j = FromBus(l) THEN <<1, -2>>
     ELSE IF j = ToBus(l) THEN <<-1, k + 1>>
     ELSE <<0, 0>>]]

NetYt(k) ==
  [l \in Branches |-> [j \in Buses |->
     IF j = ToBus(l) THEN <<1, -3>>
     ELSE IF j = FromBus(l) THEN <<-1, k + 1>>
     ELSE <<0, 0>>]]

(* bus table before the first call: stale VM, VA and the loads *)
NetBus(k) ==
  [b \in Buses |->
     [VM |-> 9, VA |-> 9,
      PD |-> IF b % 2 = 0 THEN 4 ELSE 1,
      QD |-> IF k = 1 THEN (IF b % 2 = 0 THEN 0 ELSE -13)
             ELSE (IF b % 2 = 0 THEN -25 ELSE 0)]]

(* branch table before the first call: stale flows; the in-service rows    *)
(* of net 1 are the out-of-service rows of net 2                           *)
NetBranch(k) ==
  [l \in Branches |->
     [F_BUS |-> FromBus(l), T_BUS |-> ToBus(l),
      BR_STATUS |-> IF (l + k) % 2 = 1 THEN 1 ELSE 0,
      PF |-> 9 + l, QF |-> 8 + l, PT |-> 7 + l, QT |-> 6 + l]]

(* reactive ranges <<QMIN, QMAX>> a generator may have *)
Ranges == << <<0, 0>>, <<0, 10>>, <<0, 30>>, <<2, 3>> >>

(* range profiles: 1..4 give every generator the same range, 5..8 give     *)
(* consecutive generators consecutive ranges                               *)
Profiles == 1 .. (2 * Len(Ranges))

RangeOf(prof, i) ==
  IF prof <= Len(Ranges) THEN Ranges[prof]
  ELSE Ranges[((i + prof) % Len(Ranges)) + 1]

(* generator table before the first call: stale PG and QG; an off-line     *)
(* generator has status 0 in net 1 and -1 in net 2                         *)
GenTable(k, onl, at, prof) ==
  [i \in Gens |->
     [GEN_BUS |-> at[i],
      GEN_STATUS |-> IF onl[i] THEN 1 ELSE 1 - k,
      PG |-> 3 + 2 * i + k,
      QG |-> FromInt(7 + i),
      QMIN |-> RangeOf(prof, i)[1],
      QMAX |-> RangeOf(prof, i)[2]]]

Tables == [bus |-> bus, gen |-> gen, branch |-> branch]

InitNet(k) ==
  /\ baseMVA = NetMVA(k)
  /\ Ybus = NetYbus(k)
  /\ Yf = NetYf(k)
  /\ Yt = NetYt(k)
  /\ V = NetV(k)
  /\ bus = NetBus(k)
  /\ branch = NetBranch(k)

(* generator placements: every generator at one bus h with any statuses   *)
(* and any range profile, or any placement with at most one generator     *)
(* off-line and consecutive ranges                                         *)
MixedProfile == Len(Ranges) + 1

AllAt(h) == [i \in Gens |-> h]

AllOnBut(S) == [i \in Gens |-> i \notin S]

InitShared(k) ==
  \E h \in Buses, onl \in [Gens -> BOOLEAN], prof \in Profiles :
     gen = GenTable(k, onl, AllAt(h), prof)

InitSpread(k) ==
  \E at \in [Gens -> Buses], off \in {{}} \cup {{i} : i \in Gens} :
     gen = GenTable(k, AllOnBut(off), at, MixedProfile)

Init ==
  /\ \E k \in Nets : InitNet(k) /\ (InitShared(k) \/ InitSpread(k))
  /\ ref \in Buses
  /\ pre = Tables
  /\ outcome = "none"
  /\ calls = 0
  /\ pc1 = "idle" /\ pc2 = "idle" /\ pc3 = "idle"

(* ------------------------------ actions -------------------------------- *)
(* One call of pfsoln on the caller's tables.  A caller may call a second  *)
(* time, on the tables a successful call returned (same V, matrices, ref). *)
Call ==
  /\ calls < 2
  /\ outcome \in {"none", "ok"}
  /\ \E res \in {pfsoln(baseMVA, bus, gen, branch, Ybus, Yf, Yt, V, ref)} :
         /\ bus' = res.bus
         /\ gen' = res.gen
         /\ branch' = res.branch
         /\ outcome' = res.outcome
  /\ pre' = Tables
  /\ calls' = calls + 1
  /\ UNCHANGED <<inputs, pc1, pc2, pc3>>

Next == Call

Spec == Init /\ [][Next]_vars

(* --------------- the three stages as concurrent processes -------------- *)
(* The statements of pfsoln grouped by stage, each stage a process that    *)
(* runs its own statements in order; the stages interleave freely.  pre    *)
(* keeps the tables the stages started from.                               *)
InitPar ==
  /\ \E k \in Nets : InitNet(k) /\ InitSpread(k)
  /\ ref \in Buses
  /\ pre = Tables
  /\ outcome = "none"
  /\ calls = 0
  /\ pc1 = "vm" /\ pc2 = "qg" /\ pc3 = "in"

(* stage 1, line 40 *)
ParSetVM ==
  /\ pc1 = "vm"
  /\ bus' = SetVM(bus, V)
  /\ pc1' = "va"
  /\ UNCHANGED <<inputs, gen, branch, pre, outcome, calls, pc2, pc3>>

(* stage 1, line 41 *)
ParSetVA ==
  /\ pc1 = "va"
  /\ bus' = SetVA(bus, V)
  /\ pc1' = "done"
  /\ UNCHANGED <<inputs, gen, branch, pre, outcome, calls, pc2, pc3>>

(* stage 2, lines 45-86 *)
ParUpdateQg ==
  /\ pc2 = "qg"
  /\ gen' = UpdateQg(gen, baseMVA, Ybus, V, bus)
  /\ pc2' = "pg"
  /\ UNCHANGED <<inputs, bus, branch, pre, outcome, calls, pc1, pc3>>

(* stage 2, lines 90-94: refgen[0] raises when refgen is empty *)
ParUpdatePg ==
  /\ pc2 = "pg"
  /\ IF HasRefGen(gen, ref)
     THEN gen' = UpdatePg(gen, baseMVA, Ybus, V, ref, bus) /\ pc2' = "done"
     ELSE gen' = gen /\ pc2' = "error"
  /\ UNCHANGED <<inputs, bus, branch, pre, outcome, calls, pc1, pc3>>

(* stage 3, lines 97-104 *)
ParWriteInService ==
  /\ pc3 = "in"
  /\ branch' = WriteInService(branch, Yf, Yt, V, baseMVA)
  /\ pc3' = "out"
  /\ UNCHANGED <<inputs, bus, gen, pre, outcome, calls, pc1, pc2>>

(* stage 3, line 105 *)
ParWriteOutOfService ==
  /\ pc3 = "out"
  /\ branch' = WriteOutOfService(branch)
  /\ pc3' = "done"
  /\ UNCHANGED <<inputs, bus, gen, pre, outcome, calls, pc1, pc2>>

NextPar ==
  \/ ParSetVM
  \/ ParSetVA
  \/ ParUpdateQg
  \/ ParUpdatePg
  \/ ParWriteInService
  \/ ParWriteOutOfService

SpecPar == InitPar /\ [][NextPar]_vars

(* ============================== properties ============================= *)
(* the complex product and the row-by-vector product written out on the   *)
(* real and imaginary parts, for the statements about flows and balances  *)
RECURSIVE ReRowV(_, _, _)
ReRowV(row, v, n) ==
  IF n < 0 THEN 0
  ELSE ReRowV(row, v, n - 1) + row[n][1] * v[n][1] - row[n][2] * v[n][2]

RECURSIVE ImRowV(_, _, _)
ImRowV(row, v, n) ==
  IF n < 0 THEN 0
  ELSE ImRowV(row, v, n - 1) + row[n][1] * v[n][2] + row[n][2] * v[n][1]

(* real part of v[b] * conj(row . v) *)
InjP(row, v, b) ==
  v[b][1] * ReRowV(row, v, NumBuses - 1) + v[b][2] * ImRowV(row, v, NumBuses - 1)

(* imaginary part of v[b] * conj(row . v) *)
InjQ(row, v, b) ==
  v[b][2] * ReRowV(row, v, NumBuses - 1) - v[b][1] * ImRowV(row, v, NumBuses - 1)

Returned == calls > 0 /\ outcome = "ok"

Raised == calls > 0 /\ outcome = "error"

(* C7: a second call on the tables a successful call returned, with the   *)
(* same baseMVA, Ybus, Yf, Yt, V and ref, returns tables identical to the *)
(* ones it was given: pfsoln is idempotent.                               *)
C7_Idempotent == calls = 2 /\ outcome = "ok" => Tables = pre

(* a second successful call where two generators of non-zero range share  *)
(* the reference bus, so both the re-split and the subtraction acted      *)
C7_Witness ==
  /\ calls = 2 /\ outcome = "ok"
  /\ Cardinality(RefGens(gen, ref)) > 1
  /\ \E i \in RefGens(gen, ref) : gen[i].QMAX > gen[i].QMIN

(* C8: when no on-line generator is located at the reference bus (also    *)
(* when no generator is on-line at all) the call ends in the error        *)
(* outcome and returns no tables.                                         *)
C8_NoRefGenRaises ==
  calls > 0 /\ (\A i \in Gens : ~ (pre.gen[i].GEN_STATUS > 0 /\ pre.gen[i].GEN_BUS = ref))
     => outcome = "error"

(* a failed call with generators on-line elsewhere and off-line ones at ref *)
C8_Witness ==
  /\ Raised
  /\ \E i \in Gens : gen[i].GEN_STATUS > 0
  /\ \E i \in Gens : gen[i].GEN_STATUS <= 0 /\ gen[i].GEN_BUS = ref

(* C10: when the call fails for want of an on-line reference generator,   *)
(* the caller's tables are left partially updated: VM and VA of every bus *)
(* and QG of every generator hold the new values (QG zero for off-line    *)
(* generators), PG of every generator and every branch row hold their     *)
(* values from before the call; the tables are not rolled back.           *)
C10_PartialUpdateOnError ==
  Raised =>
    LET q == UpdateQg(pre.gen, baseMVA, Ybus, V, pre.bus)
    IN  /\ \A b \in Buses : bus[b].VM = CAbs(V[b]) /\ bus[b].VA = CAngleDeg(V[b])
        /\ \A i \in Gens : /\ gen[i].QG = q[i].QG
                           /\ gen[i].GEN_STATUS <= 0 => gen[i].QG = <<0, 0>>
                           /\ gen[i].PG = pre.gen[i].PG
        /\ branch = pre.branch
        /\ Tables # pre

(* a failed call that changed the QG of an on-line and of an off-line     *)
(* generator and left stale non-zero flows on an out-of-service branch    *)
C10_Witness ==
  /\ Raised
  /\ \E i \in Gens : gen[i].GEN_STATUS > 0 /\ gen[i].QG # pre.gen[i].QG
  /\ \E i \in Gens : gen[i].GEN_STATUS <= 0 /\ gen[i].QG # pre.gen[i].QG
  /\ \E l \in Branches : branch[l].BR_STATUS = 0 /\ branch[l].PF # 0

(* C4: after a successful call the four flow fields of every branch are   *)
(* determined by the inputs alone: zero on an out-of-service branch       *)
(* (BR_STATUS = 0), the real and imaginary parts of                       *)
(* V_from * conj(Yf_row * V) * baseMVA and V_to * conj(Yt_row * V) *      *)
(* baseMVA on an in-service one; every branch is one or the other.        *)
C4_BranchFlows ==
  Returned =>
    \A l \in Branches :
       /\ (branch[l].BR_STATUS = 0) # (branch[l].BR_STATUS # 0)
       /\ branch[l].BR_STATUS = 0 =>
            /\ branch[l].PF = 0 /\ branch[l].QF = 0
            /\ branch[l].PT = 0 /\ branch[l].QT = 0
       /\ branch[l].BR_STATUS # 0 =>
            /\ branch[l].PF = InjP(Yf[l], V, branch[l].F_BUS) * baseMVA
            /\ branch[l].QF = InjQ(Yf[l], V, branch[l].F_BUS) * baseMVA
            /\ branch[l].PT = InjP(Yt[l], V, branch[l].T_BUS) * baseMVA
            /\ branch[l].QT = InjQ(Yt[l], V, branch[l].T_BUS) * baseMVA

(* a successful call that zeroed a stale out-of-service row and wrote a   *)
(* non-zero flow on an in-service row                                     *)
C4_Witness ==
  /\ Returned
  /\ \E l \in Branches : branch[l].BR_STATUS = 0 /\ pre.branch[l].PF # 0 /\ branch[l].PF = 0
  /\ \E l \in Branches : branch[l].BR_STATUS # 0 /\ branch[l].QF # 0 /\ branch[l].QF # pre.branch[l].QF

RECURSIVE SumOver(_, _)
SumOver(S, f) ==
  IF S = {} THEN 0
  ELSE LET x == CHOOSE y \in S : TRUE IN f[x] + SumOver(S \ {x}, f)

(* the generators on-line at the reference bus, and the lowest row of them *)
OnLineAtRef == {i \in Gens : gen[i].GEN_STATUS > 0 /\ gen[i].GEN_BUS = ref}

LowestAtRef == CHOOSE i \in OnLineAtRef : \A j \in OnLineAtRef : i <= j

(* C2: after a successful call the PG of the on-line generators at the    *)
(* reference bus sum to the bus's net injected real power (real part of   *)
(* V_ref * conj(Ybus_row * V), times baseMVA) plus its load PD; the       *)
(* on-line generator of lowest row index there is the anchor, every other *)
(* one keeps the PG it had before the call, and the anchor's PG is the    *)
(* bus total minus the sum of theirs.                                     *)
C2_RefBusRealPower ==
  Returned =>
    LET total == InjP(Ybus[ref], V, ref) * baseMVA + bus[ref].PD
        pg == [i \in Gens |-> gen[i].PG]
        others == OnLineAtRef \ {LowestAtRef}
    IN  /\ SumOver(OnLineAtRef, pg) = total
        /\ \A i \in others : gen[i].PG = pre.gen[i].PG
        /\ gen[LowestAtRef].PG = total - SumOver(others, [i \in Gens |-> pre.gen[i].PG])

(* a first successful call with three generators on-line at the reference *)
(* bus that changed the PG of the lowest one                              *)
C2_Witness ==
  /\ calls = 1 /\ outcome = "ok"
  /\ Cardinality(OnLineAtRef) > 2
  /\ gen[LowestAtRef].PG # pre.gen[LowestAtRef].PG

(* the generator table with every off-line row moved to the next bus and  *)
(* given another QG and another range                                     *)
OffLineRowsChanged(g) ==
  [i \in DOMAIN g |->
     IF g[i].GEN_STATUS > 0 THEN g[i]
     ELSE [g[i] EXCEPT !.GEN_BUS = (g[i].GEN_BUS + 1) % NumBuses,
                       !.QG = FromInt(1), !.QMIN = -5, !.QMAX = 12]]

(* C3: after a successful call every off-line generator has QG zero and   *)
(* the PG it had before the call; and the off-line generators are not     *)
(* counted in the divisor of the equal split nor in the Qmin/Qmax         *)
(* aggregates of a bus: the QG of the on-line generators is what it would *)
(* be with the off-line rows located elsewhere and holding other values.  *)
C3_OffLineGenerators ==
  Returned =>
    LET q == UpdateQg(OffLineRowsChanged(pre.gen), baseMVA, Ybus, V, pre.bus)
    IN  \A i \in Gens :
           /\ gen[i].GEN_STATUS <= 0 =>
                gen[i].QG = <<0, 0>> /\ gen[i].PG = pre.gen[i].PG
           /\ gen[i].GEN_STATUS > 0 => gen[i].QG = q[i].QG

(* a first successful call with an off-line generator, holding a non-zero *)
(* QG before, at a bus shared by two on-line generators                   *)
C3_Witness ==
  /\ calls = 1 /\ outcome = "ok"
  /\ \E i \in Gens :
        /\ gen[i].GEN_STATUS <= 0
        /\ pre.gen[i].QG # <<0, 0>>
        /\ Cardinality({j \in Gens : gen[j].GEN_STATUS > 0 /\ gen[j].GEN_BUS = gen[i].GEN_BUS}) > 1

(* ----------------------- reactive dispatch (Qg) ------------------------- *)
(* the whole number n as an exact binary fraction, not normalised *)
Exact(n) == <<n, 0>>

OnLineAt(b) == {i \in Gens : gen[i].GEN_STATUS > 0 /\ gen[i].GEN_BUS = b}

OnLine == {i \in Gens : gen[i].GEN_STATUS > 0}

(* total reactive output required at bus b *)
QRequired(b) == InjQ(Ybus[b], V, b) * baseMVA + bus[b].QD

SumQmin(b) == SumOver(OnLineAt(b), [i \in Gens |-> gen[i].QMIN])

SumQmax(b) == SumOver(OnLineAt(b), [i \in Gens |-> gen[i].QMAX])

(* exact sum of the QG of the generators in S *)
RECURSIVE SumQG(_)
SumQG(S) ==
  IF S = {} THEN <<0, 0>>
  ELSE LET x == CHOOSE y \in S : TRUE IN DAdd(gen[x].QG, SumQG(S \ {x}))

(* magnitude of the quantities that enter the split at bus b *)
Scale(b) ==
  AbsInt(QRequired(b))
    + SumOver(OnLineAt(b), [i \in Gens |-> AbsInt(gen[i].QMIN) + AbsInt(gen[i].QMAX)])

(* rounding tolerance at bus b: two units of EPS relative to Scale(b) *)
Tolerance(b) == DMul(EPS, Exact(2 * Scale(b)))

(* the equal-split value at bus b: the rounded total over the number of   *)
(* on-line generators at b                                                *)
EqualShare(b) == FDiv(Fl(Exact(QRequired(b))), FromInt(Cardinality(OnLineAt(b))))

(* C1: after a successful call, at every bus with an on-line generator    *)
(* the QG of the on-line generators there sum to the bus's net injected   *)
(* reactive power (imaginary part of V_bus * conj(Ybus_row * V), times    *)
(* baseMVA) plus its load QD, up to the rounding tolerance; for one, two  *)
(* or more on-line generators, zero-width own ranges, a zero aggregate    *)
(* range, and off-line generators at the bus.                             *)
C1_ReactiveBalance ==
  Returned =>
    \A b \in Buses :
       OnLineAt(b) # {} =>
         DLeq(DAbs(DSub(SumQG(OnLineAt(b)), Exact(QRequired(b)))), Tolerance(b))

(* a successful call with a non-zero total at a bus shared by an on-line  *)
(* generator of zero-width range, one of non-zero range and an off-line   *)
(* generator                                                              *)
C1_Witness ==
  /\ Returned
  /\ \E b \in Buses :
        /\ QRequired(b) # 0
        /\ \E i \in OnLineAt(b) : gen[i].QMIN = gen[i].QMAX
        /\ \E i \in OnLineAt(b) : gen[i].QMIN < gen[i].QMAX
        /\ \E i \in Gens : gen[i].GEN_STATUS <= 0 /\ gen[i].GEN_BUS = b

InterpolatedTimesRange(i) ==
  LET b == gen[i].GEN_BUS
  IN  gen[i].QMIN * (SumQmax(b) - SumQmin(b))
        + (QRequired(b) - SumQmin(b)) * (gen[i].QMAX - gen[i].QMIN)

(* C6 as stated: with more than one generator on-line, every on-line      *)
(* generator i at a bus of non-zero aggregate range ends with QG_i equal  *)
(* to Qmin_i + f * (Qmax_i - Qmin_i), f = (total - sum Qmin) / (sum Qmax  *)
(* - sum Qmin) at its bus.                                                *)
C6_ExactInterpolation ==
  Returned /\ Cardinality(OnLine) > 1 =>
    \A i \in OnLine :
       LET b == gen[i].GEN_BUS
       IN  SumQmin(b) # SumQmax(b) =>
             DSub(DMul(gen[i].QG, Exact(SumQmax(b) - SumQmin(b))),
                  Exact(InterpolatedTimesRange(i)))[1] = 0

(* C6 amended: QG_i equals Qmin_i + f * (Qmax_i - Qmin_i) up to the       *)
(* rounding tolerance, the code's f having EPS added to its denominator;  *)
(* so generators of identical range at one bus receive total/n up to that *)
(* tolerance, and ranges [0,10] and [0,30] with a bus total of 20 receive *)
(* exactly 5 and 15.                                                      *)
C6_InterpolationWithinTolerance ==
  Returned /\ Cardinality(OnLine) > 1 =>
    \A i \in OnLine :
       LET b == gen[i].GEN_BUS
           d == SumQmax(b) - SumQmin(b)
       IN  /\ d > 0 =>
                DLeq(DAbs(DSub(DMul(gen[i].QG, Exact(d)),
                               Exact(InterpolatedTimesRange(i)))),
                     DMul(Tolerance(b), Exact(d)))
           /\ QRequired(b) = 20 /\ Cardinality(OnLineAt(b)) = 2
                 /\ gen[i].QMIN = 0 /\ gen[i].QMAX \in {10, 30} /\ d = 40 =>
                gen[i].QG = FromInt(gen[i].QMAX \div 2)

(* a successful call that split a total of 20 between ranges [0,10] and   *)
(* [0,30] at one bus                                                      *)
C6_Witness ==
  /\ Returned
  /\ \E b \in Buses : \E i, j \in OnLineAt(b) :
        /\ OnLineAt(b) = {i, j}
        /\ QRequired(b) = 20
        /\ gen[i].QMIN = 0 /\ gen[i].QMAX = 10 /\ gen[i].QG = FromInt(5)
        /\ gen[j].QMIN = 0 /\ gen[j].QMAX = 30 /\ gen[j].QG = FromInt(15)

(* ----------------------- the stages interleaved ------------------------ *)
(* what the statements in the order of the code leave in the tables       *)
Sequential == pfsoln(baseMVA, pre.bus, pre.gen, pre.branch, Ybus, Yf, Yt, V, ref)

AllEnded == pc1 = "done" /\ pc2 \in {"done", "error"} /\ pc3 = "done"

(* no stage has written outside its own columns *)
OwnColumnsOnly ==
  /\ \A b \in Buses : bus[b].PD = pre.bus[b].PD /\ bus[b].QD = pre.bus[b].QD
  /\ \A i \in Gens : /\ gen[i].GEN_STATUS = pre.gen[i].GEN_STATUS
                     /\ gen[i].GEN_BUS = pre.gen[i].GEN_BUS
                     /\ gen[i].QMIN = pre.gen[i].QMIN
                     /\ gen[i].QMAX = pre.gen[i].QMAX
  /\ \A l \in Branches : /\ branch[l].BR_STATUS = pre.branch[l].BR_STATUS
                         /\ branch[l].F_BUS = pre.branch[l].F_BUS
                         /\ branch[l].T_BUS = pre.branch[l].T_BUS
  /\ pc1 = "vm" => bus = pre.bus
  /\ pc2 = "qg" => gen = pre.gen
  /\ pc3 = "in" => branch = pre.branch

====
